---- MODULE Spec2Model ----
(***************************************************************************)
(* Model of KeybindingsEditorModel and KeybindingItemMatches               *)
(* (src/vs/workbench/parts/preferences/common/keybindingsEditorModel.ts).  *)
(*                                                                         *)
(* Strings are sequences of one-character strings.  A value that may be    *)
(* null (or undefined) in the source is NULL (the empty tuple) or Some(v)  *)
(* (the 1-tuple holding v); Val reads the value back.                      *)
(***************************************************************************)
EXTENDS Integers, Sequences, FiniteSets, TLC

VARIABLES
    keybindings,      \* what keybindingsService.getKeybindings() returns now
    ready,            \* extensionService.onReady() has completed
    pending,          \* resolve() calls whose .then callback has not run yet
    keybindingItems,  \* KeybindingsEditorModel._keybindingItems
    fetched,          \* the last fetch() call: its argument and its outcome
    arg,              \* input of the pure function under check
    ret               \* its output

vars == <<keybindings, ready, pending, keybindingItems, fetched, arg, ret>>

------------------------------------------------------------------------------
(* null / optional values *)

NULL == <<>>

Some(v) == <<v>>

Val(o) == o[1]

------------------------------------------------------------------------------
(* characters and strings *)

Uppers == <<"A","B","C","D","E","F","G","H","I","J","K","L","M",
            "N","O","P","Q","R","S","T","U","V","W","X","Y","Z">>

Lowers == <<"a","b","c","d","e","f","g","h","i","j","k","l","m",
            "n","o","p","q","r","s","t","u","v","w","x","y","z">>

Digits == <<"0","1","2","3","4","5","6","7","8","9">>

\* the characters the model uses, in char-code order
Ascii == <<"\t", " ", "+", ".">> \o Digits \o Uppers \o Lowers

SetOf(s) == {s[i] : i \in 1..Len(s)}

UpperSet == SetOf(Uppers)

LowerSet == SetOf(Lowers)

DigitSet == SetOf(Digits)

isUpper(c) == c \in UpperSet

isLower(c) == c \in LowerSet

isNumber(c) == c \in DigitSet

isWhitespace(c) == c \in {" ", "\t"}

isAlphanumeric(c) == isLower(c) \/ isUpper(c) \/ isNumber(c)

\* String.prototype.charCodeAt, as the rank of the character in Ascii
charCodes == [c \in SetOf(Ascii) |-> CHOOSE i \in 1..Len(Ascii) : Ascii[i] = c]

charCode(c) == charCodes[c]

\* String.prototype.toLowerCase, per character
lowerChars ==
    [c \in SetOf(Ascii) |->
        IF c \in UpperSet THEN Lowers[CHOOSE i \in 1..Len(Uppers) : Uppers[i] = c] ELSE c]

toLowerChar(c) == lowerChars[c]

toLowerCase(s) == [i \in 1..Len(s) |-> toLowerChar(s[i])]

RECURSIVE Concat(_)
Concat(ss) == IF ss = <<>> THEN <<>> ELSE Head(ss) \o Concat(Tail(ss))

\* sign of the comparison of two strings by char code, shorter prefix first
RECURSIVE compareCodes(_, _)
compareCodes(a, b) ==
    IF a = <<>> /\ b = <<>> THEN 0
    ELSE IF a = <<>> THEN -1
    ELSE IF b = <<>> THEN 1
    ELSE IF charCode(Head(a)) < charCode(Head(b)) THEN -1
    ELSE IF charCode(Head(a)) > charCode(Head(b)) THEN 1
    ELSE compareCodes(Tail(a), Tail(b))

\* strings.compareIgnoreCase: only its sign is modelled
compareIgnoreCase(a, b) == compareCodes(toLowerCase(a), toLowerCase(b))

\* String.prototype.localeCompare: letters first compared ignoring case, then
\* lower case before upper case; only its sign is modelled
localeCompare(a, b) ==
    IF compareIgnoreCase(a, b) # 0 THEN compareIgnoreCase(a, b) ELSE 0 - compareCodes(a, b)

\* String.prototype.trim
RECURSIVE trimStart(_)
trimStart(s) == IF s # <<>> /\ isWhitespace(Head(s)) THEN trimStart(Tail(s)) ELSE s

RECURSIVE trimEnd(_)
trimEnd(s) ==
    IF s # <<>> /\ isWhitespace(s[Len(s)]) THEN trimEnd(SubSeq(s, 1, Len(s) - 1)) ELSE s

trim(s) == trimEnd(trimStart(s))

\* String.prototype.indexOf(ch), 0-based, -1 when absent
indexOfChar(s, ch) ==
    IF \E i \in 1..Len(s) : s[i] = ch THEN (CHOOSE i \in 1..Len(s) : s[i] = ch /\ \A j \in 1..(i - 1) : s[j] # ch) - 1
    ELSE -1

\* String.prototype.split(sep) for a one-character separator
RECURSIVE split(_, _)
split(s, sep) ==
    LET i == indexOfChar(s, sep)
    IN  IF i = -1 THEN <<s>>
        ELSE <<SubSeq(s, 1, i)>> \o split(SubSeq(s, i + 2, Len(s)), sep)

\* String.prototype.indexOf(word), 0-based, -1 when absent
indexOf(s, word) ==
    LET At(i) == i + Len(word) <= Len(s) /\ SubSeq(s, i + 1, i + Len(word)) = word
        hits  == {i \in 0..Len(s) : At(i)}
    IN  IF hits = {} THEN -1 ELSE CHOOSE i \in hits : \A j \in hits : i <= j

------------------------------------------------------------------------------
(* vs/base/common/filters: IFilter = (word, wordToMatchAgainst) -> IMatch[] *)
(* or null.  A filter result is NULL or Some(sequence of spans).            *)

Span(s, e) == [start |-> s, end |-> e]

\* filters.join: put head before tail, merging it with an adjacent first span
join(head, tail) ==
    IF tail = <<>> THEN <<head>>
    ELSE IF head.end = tail[1].start THEN <<Span(head.start, tail[1].end)>> \o Tail(tail)
    ELSE <<head>> \o tail

\* filters.matchesPrefix (ignoring case): word is a prefix of wordToMatchAgainst
matchesPrefix(word, wordToMatchAgainst) ==
    IF Len(wordToMatchAgainst) = 0 \/ Len(wordToMatchAgainst) < Len(word) THEN NULL
    ELSE IF \E i \in 1..Len(word) : toLowerChar(word[i]) # toLowerChar(wordToMatchAgainst[i])
         THEN NULL
    ELSE Some(IF Len(word) > 0 THEN <<Span(0, Len(word))>> ELSE <<>>)

\* filters.matchesContiguousSubString
matchesContiguousSubString(word, wordToMatchAgainst) ==
    LET index == indexOf(toLowerCase(wordToMatchAgainst), toLowerCase(word))
    IN  IF index = -1 THEN NULL ELSE Some(<<Span(index, index + Len(word))>>)

\* filters.nextWord: the next index at or after start that is white space or
\* follows white space; the length when there is none (0-based)
nextWord(word, start) ==
    LET hits == {i \in start..(Len(word) - 1) :
                    isWhitespace(word[i + 1]) \/ (i > 0 /\ isWhitespace(word[i]))}
    IN  IF hits = {} THEN Len(word) ELSE CHOOSE i \in hits : \A j \in hits : i <= j

\* filters._matchesWords: word[i..] against target from index j (0-based)
RECURSIVE matchesWordsFrom(_, _, _, _, _)
RECURSIVE matchesWordsScan(_, _, _, _, _)
matchesWordsFrom(word, target, i, j, contiguous) ==
    IF i = Len(word) THEN Some(<<>>)
    ELSE IF j = Len(target) THEN NULL
    ELSE IF word[i + 1] # toLowerChar(target[j + 1]) THEN NULL
    ELSE LET direct == matchesWordsFrom(word, target, i + 1, j + 1, contiguous)
             result == IF direct = NULL /\ ~contiguous
                       THEN matchesWordsScan(word, target, i + 1, j + 1, contiguous)
                       ELSE direct
         IN  IF result = NULL THEN NULL ELSE Some(join(Span(j, j + 1), Val(result)))

\* the while loop of _matchesWords over the later word starts
matchesWordsScan(word, target, i, from, contiguous) ==
    LET nextWordIndex == nextWord(target, from)
    IN  IF nextWordIndex >= Len(target) THEN NULL
        ELSE LET result == matchesWordsFrom(word, target, i, nextWordIndex, contiguous)
             IN  IF result # NULL THEN result
                 ELSE matchesWordsScan(word, target, i, nextWordIndex + 1, contiguous)

\* the while loop of matchesWords over the word starts of target
RECURSIVE matchesWordsLoop(_, _, _, _)
matchesWordsLoop(word, target, i, contiguous) ==
    IF i >= Len(target) THEN NULL
    ELSE LET result == matchesWordsFrom(toLowerCase(word), target, 0, i, contiguous)
         IN  IF result # NULL THEN result
             ELSE matchesWordsLoop(word, target, nextWord(target, i + 1), contiguous)

\* filters.matchesWords(word, target, contiguous)
matchesWords(word, target, contiguous) ==
    IF Len(target) = 0 THEN NULL ELSE matchesWordsLoop(word, target, 0, contiguous)

\* filters.nextAnchor: the next index at or after start that is upper case, a
\* digit, or follows a non-alphanumeric character (0-based)
nextAnchor(camelCaseWord, start) ==
    LET hits == {i \in start..(Len(camelCaseWord) - 1) :
                    \/ isUpper(camelCaseWord[i + 1])
                    \/ isNumber(camelCaseWord[i + 1])
                    \/ (i > 0 /\ ~isAlphanumeric(camelCaseWord[i]))}
    IN  IF hits = {} THEN Len(camelCaseWord) ELSE CHOOSE i \in hits : \A j \in hits : i <= j

Count(s, chars) == Cardinality({i \in 1..Len(s) : s[i] \in chars})

\* filters.isCamelCaseWord over analyzeCamelCaseWord: lowerPercent > 0.2,
\* upperPercent < 0.8, alphaPercent > 0.6, numericPercent < 0.2
isCamelCaseWord(w) ==
    /\ 10 * Count(w, LowerSet) > 2 * Len(w)
    /\ 10 * Count(w, UpperSet) < 8 * Len(w)
    /\ 10 * (Count(w, LowerSet) + Count(w, UpperSet)) > 6 * Len(w)
    /\ 10 * Count(w, DigitSet) < 2 * Len(w)

\* filters.isUpperCaseWord: lowerPercent = 0 and upperPercent > 0.6
isUpperCaseWord(w) == Count(w, LowerSet) = 0 /\ 10 * Count(w, UpperSet) > 6 * Len(w)

\* filters._matchesCamelCase: word[i..] against camelCaseWord from index j
RECURSIVE matchesCamelCaseFrom(_, _, _, _)
RECURSIVE matchesCamelCaseScan(_, _, _, _)
matchesCamelCaseFrom(word, camelCaseWord, i, j) ==
    IF i = Len(word) THEN Some(<<>>)
    ELSE IF j = Len(camelCaseWord) THEN NULL
    ELSE IF word[i + 1] # toLowerChar(camelCaseWord[j + 1]) THEN NULL
    ELSE LET direct == matchesCamelCaseFrom(word, camelCaseWord, i + 1, j + 1)
             result == IF direct = NULL
                       THEN matchesCamelCaseScan(word, camelCaseWord, i + 1, j + 1)
                       ELSE direct
         IN  IF result = NULL THEN NULL ELSE Some(join(Span(j, j + 1), Val(result)))

matchesCamelCaseScan(word, camelCaseWord, i, from) ==
    LET nextUpperIndex == nextAnchor(camelCaseWord, from)
    IN  IF nextUpperIndex >= Len(camelCaseWord) THEN NULL
        ELSE LET result == matchesCamelCaseFrom(word, camelCaseWord, i, nextUpperIndex)
             IN  IF result # NULL THEN result
                 ELSE matchesCamelCaseScan(word, camelCaseWord, i, nextUpperIndex + 1)

RECURSIVE matchesCamelCaseLoop(_, _, _)
matchesCamelCaseLoop(word, camelCaseWord, i) ==
    IF i >= Len(camelCaseWord) THEN NULL
    ELSE LET result == matchesCamelCaseFrom(toLowerCase(word), camelCaseWord, 0, i)
         IN  IF result # NULL THEN result
             ELSE matchesCamelCaseLoop(word, camelCaseWord, nextAnchor(camelCaseWord, i + 1))

\* filters.matchesCamelCase(word, camelCaseWord)
matchesCamelCase(word, camelCaseWord) ==
    IF Len(camelCaseWord) = 0 THEN NULL
    ELSE IF isCamelCaseWord(camelCaseWord) THEN matchesCamelCaseLoop(word, camelCaseWord, 0)
    ELSE IF isUpperCaseWord(camelCaseWord)
         THEN matchesCamelCaseLoop(word, toLowerCase(camelCaseWord), 0)
    ELSE NULL

\* filters.or: the first filter whose result is not null
orFilters(results) ==
    IF \A i \in 1..Len(results) : results[i] = NULL THEN NULL
    ELSE results[CHOOSE i \in 1..Len(results) :
                    results[i] # NULL /\ \A j \in 1..(i - 1) : results[j] = NULL]

\* arrays.distinct(array, keyFn) with keyFn = start + '.' + end: the first
\* element of every key, in order
RECURSIVE distinct(_)
distinct(array) ==
    IF array = <<>> THEN <<>>
    ELSE LET init == distinct(SubSeq(array, 1, Len(array) - 1))
             last == array[Len(array)]
         IN  IF \E i \in 1..Len(init) : init[i] = last THEN init ELSE Append(init, last)

\* Array.prototype.sort((a, b) => a.start - b.start), as an insertion sort
RECURSIVE sortByStart(_)
sortByStart(array) ==
    IF array = <<>> THEN <<>>
    ELSE LET init == sortByStart(SubSeq(array, 1, Len(array) - 1))
             last == array[Len(array)]
             k    == Cardinality({i \in 1..Len(init) : init[i].start <= last.start})
         IN  SubSeq(init, 1, k) \o <<last>> \o SubSeq(init, k + 1, Len(init))


------------------------------------------------------------------------------
(* vs/platform/keybinding: modifier labels and resolved keybindings.        *)
(* A key-combination part is [ctrlKey, shiftKey, altKey, metaKey, key]; a   *)
(* ResolvedKeybinding is [first |-> part, chord |-> NULL or Some(part)].    *)

Part(ctrl, shift, alt, meta, key) ==
    [ctrlKey |-> ctrl, shiftKey |-> shift, altKey |-> alt, metaKey |-> meta, key |-> key]

\* UILabelProvider / AriaLabelProvider / UserSettingsLabelProvider
\* .modifierLabels[OperatingSystem.Windows]
UILabels == [ctrlKey |-> <<"C","t","r","l">>, shiftKey |-> <<"S","h","i","f","t">>, altKey |-> <<"A","l","t">>, metaKey |-> <<"W","i","n","d","o","w","s">>]

AriaLabels == [ctrlKey |-> <<"C","o","n","t","r","o","l">>, shiftKey |-> <<"S","h","i","f","t">>, altKey |-> <<"A","l","t">>, metaKey |-> <<"W","i","n","d","o","w","s">>]

UserLabels == [ctrlKey |-> <<"c","t","r","l">>, shiftKey |-> <<"s","h","i","f","t">>, altKey |-> <<"a","l","t">>, metaKey |-> <<"w","i","n">>]

\* the label of one part: its modifiers in the order ctrl, shift, alt, meta,
\* then its key, joined by '+'
partLabel(part, labels) ==
    (IF part.ctrlKey THEN labels.ctrlKey \o <<"+">> ELSE <<>>)
    \o (IF part.shiftKey THEN labels.shiftKey \o <<"+">> ELSE <<>>)
    \o (IF part.altKey THEN labels.altKey \o <<"+">> ELSE <<>>)
    \o (IF part.metaKey THEN labels.metaKey \o <<"+">> ELSE <<>>)
    \o part.key

\* the label of a keybinding: the parts' labels separated by a space
keybindingLabel(keybinding, labels) ==
    partLabel(keybinding.first, labels)
    \o (IF keybinding.chord = NULL THEN <<>>
        ELSE <<" ">> \o partLabel(Val(keybinding.chord), labels))

\* ResolvedKeybinding.getLabel
getLabel(keybinding) == keybindingLabel(keybinding, UILabels)

\* ResolvedKeybinding.getAriaLabel
getAriaLabel(keybinding) == keybindingLabel(keybinding, AriaLabels)

\* ResolvedKeybinding.getAriaLabelWithoutModifiers, of one part
getAriaLabelWithoutModifiers(part) == part.key

\* ResolvedKeybinding.getParts: [firstPart, chordPart], chordPart null without chord
getParts(keybinding) == <<Some(keybinding.first), keybinding.chord>>

------------------------------------------------------------------------------
(* class KeybindingItemMatches *)

\* constructor of KeybindingsEditorModel: this.modifierLabels
modifierLabels == [ui |-> UILabels, aria |-> AriaLabels, user |-> UserLabels]

\* const wordFilter = or(matchesPrefix, matchesWords, matchesContiguousSubString)
wordFilter(word, wordToMatchAgainst) ==
    orFilters(<<matchesPrefix(word, wordToMatchAgainst),
                matchesWords(word, wordToMatchAgainst, FALSE),
                matchesContiguousSubString(word, wordToMatchAgainst)>>)

\* or(matchesWords, matchesCamelCase), the word filter of command id and when
wordsOrCamelCase(word, wordToMatchAgainst) ==
    orFilters(<<matchesWords(word, wordToMatchAgainst, FALSE),
                matchesCamelCase(word, wordToMatchAgainst)>>)

\* (word, wordToMatchAgainst) => matchesWords(word, text, true), the word
\* filter of label, default label and source
wordsContiguous(word, wordToMatchAgainst) == matchesWords(word, wordToMatchAgainst, TRUE)

\* a call of the IFilter passed to matches(), named by wordMatchesFilter
applyFilter(wordMatchesFilter, word, wordToMatchAgainst) ==
    IF wordMatchesFilter = "wordsOrCamelCase" THEN wordsOrCamelCase(word, wordToMatchAgainst)
    ELSE wordsContiguous(word, wordToMatchAgainst)

\* filterAndSort without its containment filter
filterAndSortUnfiltered(matches) == sortByStart(distinct(matches))

\* filterAndSort without its final sort
filterAndSortUnsorted(matches) ==
    SelectSeq(distinct(matches),
        LAMBDA match : ~\E i \in 1..Len(matches) :
            /\ ~(matches[i].start = match.start /\ matches[i].end = match.end)
            /\ matches[i].start <= match.start
            /\ matches[i].end >= match.end)

\* KeybindingItemMatches.filterAndSort
filterAndSort(matches) ==
    sortByStart(SelectSeq(distinct(matches),
        LAMBDA match : ~\E i \in 1..Len(matches) :
            /\ ~(matches[i].start = match.start /\ matches[i].end = match.end)
            /\ matches[i].start <= match.start
            /\ matches[i].end >= match.end))

\* the loop of KeybindingItemMatches.matchesWords over the results of the
\* words: the spans are accumulated, a failing word makes the result null
collectWordMatches(wordMatches) ==
    IF \E k \in 1..Len(wordMatches) : wordMatches[k] = NULL THEN NULL
    ELSE Some(Concat([k \in 1..Len(wordMatches) |-> Val(wordMatches[k])]))

\* KeybindingItemMatches.matchesWords: every word must match
KeybindingItemMatches_matchesWords(words, wordToMatchAgainst, wordMatchesFilter) ==
    collectWordMatches([k \in 1..Len(words) |->
                           applyFilter(wordMatchesFilter, words[k], wordToMatchAgainst)])

\* matches(): if (!matches) { matches = ... }
ifNull(matches, otherwise) == IF matches = NULL THEN otherwise ELSE matches

\* matches(): if (matches) { matches = this.filterAndSort(matches); }
filterAndSortIfAny(matches) ==
    IF matches = NULL THEN NULL ELSE Some(filterAndSort(Val(matches)))

\* KeybindingItemMatches.matches
matches(searchValue, wordToMatchAgainst, wordMatchesFilter, words) ==
    filterAndSortIfAny(
        ifNull(wordFilter(searchValue, wordToMatchAgainst),
               KeybindingItemMatches_matchesWords(words, wordToMatchAgainst, wordMatchesFilter)))

\* KeybindingMatch {}: an unset flag is FALSE
NoMatch == [metaKey |-> FALSE, ctrlKey |-> FALSE, shiftKey |-> FALSE, altKey |-> FALSE, keyCode |-> FALSE]

FullMatch == [metaKey |-> TRUE, ctrlKey |-> TRUE, shiftKey |-> TRUE, altKey |-> TRUE, keyCode |-> TRUE]

\* KeybindingItemMatches.matchesKeyCode; keybinding is NULL or Some(part)
matchesKeyCode(keybinding, word) ==
    IF keybinding = NULL THEN FALSE
    ELSE LET ariaLabel == getAriaLabelWithoutModifiers(Val(keybinding))
         IN  IF Len(ariaLabel) = 1 \/ Len(word) = 1
             THEN compareIgnoreCase(ariaLabel, word) = 0
             ELSE matchesContiguousSubString(word, ariaLabel) # NULL

\* KeybindingItemMatches.matchesMetaModifier
matchesMetaModifier(keybinding, word) ==
    IF keybinding = NULL THEN FALSE
    ELSE IF ~Val(keybinding).metaKey THEN FALSE
    ELSE IF matchesPrefix(modifierLabels.ui.metaKey, word) # NULL THEN TRUE
    ELSE IF matchesPrefix(modifierLabels.aria.metaKey, word) # NULL THEN TRUE
    ELSE IF matchesPrefix(modifierLabels.user.metaKey, word) # NULL THEN TRUE
    ELSE FALSE

\* KeybindingItemMatches.matchesCtrlModifier
matchesCtrlModifier(keybinding, word) ==
    IF keybinding = NULL THEN FALSE
    ELSE IF ~Val(keybinding).ctrlKey THEN FALSE
    ELSE IF matchesPrefix(modifierLabels.ui.ctrlKey, word) # NULL THEN TRUE
    ELSE IF matchesPrefix(modifierLabels.aria.ctrlKey, word) # NULL THEN TRUE
    ELSE IF matchesPrefix(modifierLabels.user.ctrlKey, word) # NULL THEN TRUE
    ELSE FALSE

\* KeybindingItemMatches.matchesShiftModifier
matchesShiftModifier(keybinding, word) ==
    IF keybinding = NULL THEN FALSE
    ELSE IF ~Val(keybinding).shiftKey THEN FALSE
    ELSE IF matchesPrefix(modifierLabels.ui.shiftKey, word) # NULL THEN TRUE
    ELSE IF matchesPrefix(modifierLabels.aria.shiftKey, word) # NULL THEN TRUE
    ELSE IF matchesPrefix(modifierLabels.user.shiftKey, word) # NULL THEN TRUE
    ELSE FALSE

\* KeybindingItemMatches.matchesAltModifier
matchesAltModifier(keybinding, word) ==
    IF keybinding = NULL THEN FALSE
    ELSE IF ~Val(keybinding).altKey THEN FALSE
    ELSE IF matchesPrefix(modifierLabels.ui.altKey, word) # NULL THEN TRUE
    ELSE IF matchesPrefix(modifierLabels.aria.altKey, word) # NULL THEN TRUE
    ELSE IF matchesPrefix(modifierLabels.user.altKey, word) # NULL THEN TRUE
    ELSE FALSE

\* the five ifs of matchPart: the flags set on match, and whether any was
setFlags(match, meta, ctrl, shift, alt, code) ==
    [matched |-> meta \/ ctrl \/ shift \/ alt \/ code,
     match   |-> [metaKey  |-> match.metaKey \/ meta,
                  ctrlKey  |-> match.ctrlKey \/ ctrl,
                  shiftKey |-> match.shiftKey \/ shift,
                  altKey   |-> match.altKey \/ alt,
                  keyCode  |-> match.keyCode \/ code]]

\* KeybindingItemMatches.matchPart: the flags of match that word sets, and
\* whether it set any; part is NULL or Some(part)
matchPart(part, match, word) ==
    setFlags(match, matchesMetaModifier(part, word), matchesCtrlModifier(part, word),
             matchesShiftModifier(part, word), matchesAltModifier(part, word),
             matchesKeyCode(part, word))

\* KeybindingItemMatches.hasAnyMatch
hasAnyMatch(keybindingMatch) ==
    \/ keybindingMatch.altKey
    \/ keybindingMatch.ctrlKey
    \/ keybindingMatch.metaKey
    \/ keybindingMatch.shiftKey
    \/ keybindingMatch.keyCode

\* one round of the for loop of matchesKeybinding: first and chord are the
\* results of matchPart for the two parts
matchWord(state, word, first, chord) ==
    [firstPartMatch |-> first.match,
     chordPartMatch |-> chord.match,
     matchedWords   |-> IF first.matched \/ chord.matched
                        THEN Append(state.matchedWords, word)
                        ELSE state.matchedWords]

\* the for loop of matchesKeybinding over the words, from the state
\* [firstPartMatch, chordPartMatch, matchedWords]
RECURSIVE matchWords(_, _, _, _)
matchWords(firstPart, chordPart, words, state) ==
    IF words = <<>> THEN state
    ELSE matchWords(firstPart, chordPart, Tail(words),
             matchWord(state, Head(words),
                 matchPart(firstPart, state.firstPartMatch, Head(words)),
                 matchPart(chordPart, state.chordPartMatch, Head(words))))

\* matchesKeybinding before its loop: firstPartMatch = {}, chordPartMatch = {},
\* matchedWords = []
NoWords == [firstPartMatch |-> NoMatch, chordPartMatch |-> NoMatch, matchedWords |-> <<>>]

\* the end of matchesKeybinding accepting a query of which some word matched
keybindingMatchOfAnyWord(state) ==
    IF Len(state.matchedWords) = 0 THEN NULL
    ELSE IF hasAnyMatch(state.firstPartMatch) \/ hasAnyMatch(state.chordPartMatch)
         THEN Some([firstPart |-> state.firstPartMatch, chordPart |-> state.chordPartMatch])
    ELSE NULL

\* the end of matchesKeybinding, after its loop left state
keybindingMatchOf(state, words) ==
    IF Len(state.matchedWords) # Len(words) THEN NULL
    ELSE IF hasAnyMatch(state.firstPartMatch) \/ hasAnyMatch(state.chordPartMatch)
         THEN Some([firstPart |-> state.firstPartMatch, chordPart |-> state.chordPartMatch])
    ELSE NULL

\* matchesKeybinding accepting a query of which only some word matched
matchesKeybindingAnyWord(keybinding, searchValue, words) ==
    IF \/ compareIgnoreCase(searchValue, getAriaLabel(keybinding)) = 0
       \/ compareIgnoreCase(searchValue, getLabel(keybinding)) = 0
    THEN Some([firstPart |-> FullMatch, chordPart |-> FullMatch])
    ELSE keybindingMatchOfAnyWord(
             matchWords(getParts(keybinding)[1], getParts(keybinding)[2], words, NoWords))

\* matchesKeybinding without the comparison with the full labels
matchesKeybindingWordsOnly(keybinding, searchValue, words) ==
    keybindingMatchOf(
        matchWords(getParts(keybinding)[1], getParts(keybinding)[2], words, NoWords), words)

\* KeybindingItemMatches.matchesKeybinding
matchesKeybinding(keybinding, searchValue, words) ==
    IF \/ compareIgnoreCase(searchValue, getAriaLabel(keybinding)) = 0
       \/ compareIgnoreCase(searchValue, getLabel(keybinding)) = 0
    THEN Some([firstPart |-> FullMatch, chordPart |-> FullMatch])
    ELSE keybindingMatchOf(
             matchWords(getParts(keybinding)[1], getParts(keybinding)[2], words, NoWords), words)

\* constructor of KeybindingItemMatches: the six field matches of one item
KeybindingItemMatches(keybindingItem, searchValue, words, keybindingWords) ==
    [commandIdMatches |->
        matches(searchValue, keybindingItem.command, "wordsOrCamelCase", words),
     commandLabelMatches |->
        IF keybindingItem.commandLabel # <<>>
        THEN matches(searchValue, keybindingItem.commandLabel, "wordsContiguous", words)
        ELSE NULL,
     commandDefaultLabelMatches |->
        IF keybindingItem.commandDefaultLabel # NULL /\ Val(keybindingItem.commandDefaultLabel) # <<>>
        THEN matches(searchValue, Val(keybindingItem.commandDefaultLabel), "wordsContiguous", words)
        ELSE NULL,
     sourceMatches |->
        matches(searchValue, keybindingItem.source, "wordsContiguous", words),
     whenMatches |->
        IF keybindingItem.when # <<>>
        THEN matches(searchValue, keybindingItem.when, "wordsOrCamelCase", words)
        ELSE NULL,
     keybindingMatches |->
        IF keybindingItem.keybinding # NULL
        THEN matchesKeybinding(Val(keybindingItem.keybinding), searchValue, keybindingWords)
        ELSE NULL]


------------------------------------------------------------------------------
(* The collaborators of resolve(): registries and the keybinding service.   *)

ResolvedKeybinding(first, chord) == [first |-> first, chord |-> chord]

\* new ResolvedKeybindingItem(resolvedKeybinding, command, commandArgs, when, isDefault)
ResolvedKeybindingItem(resolvedKeybinding, command, when, isDefault) ==
    [resolvedKeybinding |-> resolvedKeybinding, command |-> command,
     when |-> when, isDefault |-> isDefault]

undo == <<"u","n","d","o">>

copy == <<"c","o","p","y">>

goTo == <<"g","o","T","o">>

zap == <<"z","a","p">>

CtrlX == ResolvedKeybinding(Part(TRUE, FALSE, FALSE, FALSE, <<"X">>), NULL)

ShiftAltX == ResolvedKeybinding(Part(FALSE, TRUE, TRUE, FALSE, <<"X">>), NULL)

CtrlKCtrlC ==
    ResolvedKeybinding(Part(TRUE, FALSE, FALSE, FALSE, <<"K">>),
                       Some(Part(TRUE, FALSE, FALSE, FALSE, <<"C">>)))

CtrlQ == ResolvedKeybinding(Part(TRUE, FALSE, FALSE, FALSE, <<"Q">>), NULL)

\* keybindingsService.getDefaultKeybindings(): two default bindings of copy
getDefaultKeybindings ==
    <<ResolvedKeybindingItem(Some(CtrlX), Some(copy), NULL, TRUE),
      ResolvedKeybindingItem(Some(ShiftAltX), Some(copy), NULL, TRUE)>>

\* the bindings keybindingsService.getKeybindings() may hold: the defaults, a
\* user chord with a when clause, and a binding without command
Bindings ==
    {getDefaultKeybindings[1], getDefaultKeybindings[2],
     ResolvedKeybindingItem(Some(CtrlKCtrlC), Some(goTo), Some(<<"e","d","i","t","o","r","F","o","c","u","s">>), FALSE),
     ResolvedKeybindingItem(Some(CtrlQ), NULL, NULL, FALSE)}

\* every command known to the registries, in registration order
AllCommands == <<undo, zap, goTo, copy>>

\* KeybindingResolver.getAllUnboundCommands(boundCommands)
getAllUnboundCommands(boundCommands) ==
    SelectSeq(AllCommands, LAMBDA command : command \notin boundCommands)

\* workbenchActionsRegistry.getWorkbenchAction(command): NULL or a descriptor
getWorkbenchAction(command) ==
    IF command = goTo THEN Some([id |-> goTo, label |-> <<"G","e","h","e"," ","z","u">>]) ELSE NULL

\* workbenchActionsRegistry.getAlias(id)
getAlias(id) == <<"G","o"," ","T","o">>

\* MenuRegistry.getCommand(command): NULL or a command with a localized title
getCommand(command) ==
    IF command = copy
    THEN Some([title |-> [value |-> <<"K","o","p","i","e","r","e","n">>, original |-> <<"C","o","p","y">>]])
    ELSE NULL

\* editorActions[command]: NULL or an editor action
editorActions(command) == IF command = undo THEN Some([label |-> <<"U","n","d","o">>]) ELSE NULL

\* platform.language differs from LANGUAGE_DEFAULT: the display language is
\* not the authoring language
languageIsDefault == FALSE

------------------------------------------------------------------------------
(* class KeybindingsEditorModel *)

\* KeybindingsEditorModel.getCommandDefaultLabel
getCommandDefaultLabel(workbenchAction, menuCommand) ==
    IF ~languageIsDefault /\ workbenchAction # NULL THEN Some(getAlias(Val(workbenchAction).id))
    ELSE IF ~languageIsDefault /\ menuCommand # NULL /\ Val(menuCommand).title.original # <<>>
         THEN Some(Val(menuCommand).title.original)
    ELSE NULL

\* KeybindingsEditorModel.getCommandLabel
getCommandLabel(workbenchAction, menuCommand, editorAction) ==
    IF workbenchAction # NULL THEN Val(workbenchAction).label
    ELSE IF menuCommand # NULL THEN Val(menuCommand).title.value
    ELSE IF editorAction # NULL THEN Val(editorAction).label
    ELSE <<>>

\* KeybindingsEditorModel.toKeybindingEntry
toKeybindingEntry(command, keybindingItem) ==
    LET workbenchAction == getWorkbenchAction(command)
        menuCommand     == getCommand(command)
        editorAction    == editorActions(command)
    IN  [keybinding          |-> keybindingItem.resolvedKeybinding,
         keybindingItem      |-> keybindingItem,
         command             |-> command,
         commandLabel        |-> getCommandLabel(workbenchAction, menuCommand, editorAction),
         commandDefaultLabel |-> getCommandDefaultLabel(workbenchAction, menuCommand),
         when                |-> IF keybindingItem.when # NULL THEN Val(keybindingItem.when) ELSE <<>>,
         source              |-> IF keybindingItem.isDefault THEN <<"D","e","f","a","u","l","t">> ELSE <<"U","s","e","r">>]

\* KeybindingsEditorModel.getId
getId(keybindingItem) ==
    keybindingItem.command
    \o (IF keybindingItem.keybinding # NULL THEN getAriaLabel(Val(keybindingItem.keybinding)) ELSE <<>>)
    \o keybindingItem.source
    \o keybindingItem.when

\* KeybindingsEditorModel.compareKeybindingData
compareKeybindingData(a, b) ==
    IF a.keybinding # NULL /\ b.keybinding = NULL THEN -1
    ELSE IF b.keybinding # NULL /\ a.keybinding = NULL THEN 1
    ELSE IF a.commandLabel # <<>> /\ b.commandLabel = <<>> THEN -1
    ELSE IF b.commandLabel # <<>> /\ a.commandLabel = <<>> THEN 1
    ELSE IF a.commandLabel # <<>> /\ b.commandLabel # <<>> /\ a.commandLabel # b.commandLabel
         THEN localeCompare(a.commandLabel, b.commandLabel)
    ELSE IF a.command = b.command THEN (IF a.keybindingItem.isDefault THEN 1 ELSE -1)
    ELSE localeCompare(a.command, b.command)

\* the comparator orders a before b, and says so in both directions
strictlyBefore(a, b) == compareKeybindingData(a, b) < 0 /\ compareKeybindingData(b, a) > 0

RemoveAt(array, i) == SubSeq(array, 1, i - 1) \o SubSeq(array, i + 1, Len(array))

\* resolve() keeping the entries in the order they were pushed
sortSkipped(array) == {array}

\* Array.prototype.sort((a, b) => compareKeybindingData(a, b)): the orders a
\* sort may return.  Where the comparator contradicts itself the order is
\* implementation-defined, so every order of such a pair is an outcome.
RECURSIVE sort(_)
sort(array) ==
    IF array = <<>> THEN {<<>>}
    ELSE UNION {{<<array[i]>> \o rest : rest \in sort(RemoveAt(array, i))} :
                i \in {first \in 1..Len(array) :
                          \A j \in 1..Len(array) : ~strictlyBefore(array[j], array[first])}}

\* resolve(), first loop: one entry per keybinding with a command
boundEntries(bindings) ==
    LET withCommand == SelectSeq(bindings, LAMBDA keybinding : keybinding.command # NULL)
    IN  [k \in 1..Len(withCommand) |->
            toKeybindingEntry(Val(withCommand[k].command), withCommand[k])]

\* resolve(), boundCommands: the commands of the keybindings
boundCommandsOf(bindings) ==
    {Val(bindings[k].command) : k \in {k \in 1..Len(bindings) : bindings[k].command # NULL}}

\* resolve(), second loop: one entry per unbound command, default unless the
\* command has a default keybinding
unboundEntries(bindings) ==
    LET commandsWithDefaultKeybindings ==
            {getDefaultKeybindings[k].command : k \in 1..Len(getDefaultKeybindings)}
        unbound == getAllUnboundCommands(boundCommandsOf(bindings))
    IN  [k \in 1..Len(unbound) |->
            toKeybindingEntry(unbound[k],
                ResolvedKeybindingItem(NULL, Some(unbound[k]), NULL,
                    Some(unbound[k]) \notin commandsWithDefaultKeybindings))]

\* resolve(), the .then callback: the lists this._keybindingItems may become
resolved(bindings) == sort(boundEntries(bindings) \o unboundEntries(bindings))

KEYBINDING_ENTRY_TEMPLATE_ID == "keybinding.entry.template"

\* an entry of fetch()'s result; an absent match field is NULL
ListEntry(keybindingItem, itemMatches) ==
    [id                         |-> getId(keybindingItem),
     templateId                 |-> KEYBINDING_ENTRY_TEMPLATE_ID,
     keybindingItem             |-> keybindingItem,
     commandLabelMatches        |-> itemMatches.commandLabelMatches,
     commandDefaultLabelMatches |-> itemMatches.commandDefaultLabelMatches,
     keybindingMatches          |-> itemMatches.keybindingMatches,
     commandIdMatches           |-> itemMatches.commandIdMatches,
     sourceMatches              |-> itemMatches.sourceMatches,
     whenMatches                |-> itemMatches.whenMatches]

NoMatches ==
    [commandIdMatches |-> NULL, commandLabelMatches |-> NULL,
     commandDefaultLabelMatches |-> NULL, sourceMatches |-> NULL,
     whenMatches |-> NULL, keybindingMatches |-> NULL]

\* the test of lines 103-108 without sourceMatches
anyMatchesButSource(keybindingMatches) ==
    \/ keybindingMatches.commandIdMatches # NULL
    \/ keybindingMatches.commandLabelMatches # NULL
    \/ keybindingMatches.commandDefaultLabelMatches # NULL
    \/ keybindingMatches.whenMatches # NULL
    \/ keybindingMatches.keybindingMatches # NULL

\* fetchKeybindingItems, the test of lines 103-108
anyMatches(keybindingMatches) ==
    \/ keybindingMatches.commandIdMatches # NULL
    \/ keybindingMatches.commandLabelMatches # NULL
    \/ keybindingMatches.commandDefaultLabelMatches # NULL
    \/ keybindingMatches.sourceMatches # NULL
    \/ keybindingMatches.whenMatches # NULL
    \/ keybindingMatches.keybindingMatches # NULL

\* fetchKeybindingItems, one round of the loop: the entry of keybindingItem
\* is put before the entries of the later items if some field matched
pushIfAnyMatches(keybindingItem, keybindingMatches, rest) ==
    IF anyMatches(keybindingMatches)
    THEN <<ListEntry(keybindingItem, keybindingMatches)>> \o rest
    ELSE rest

\* fetchKeybindingItems, the for loop over the items from index k
RECURSIVE fetchLoop(_, _, _, _, _)
fetchLoop(items, k, searchValue, words, keybindingWords) ==
    IF k > Len(items) THEN <<>>
    ELSE pushIfAnyMatches(items[k],
             KeybindingItemMatches(items[k], searchValue, words, keybindingWords),
             fetchLoop(items, k + 1, searchValue, words, keybindingWords))

\* fetchKeybindingItems, lines 99-100: the words of the key combination
keybindingWordsOf(searchValue) ==
    IF indexOfChar(searchValue, "+") # -1 THEN split(searchValue, "+") ELSE split(searchValue, " ")

\* KeybindingsEditorModel.fetchKeybindingItems over this._keybindingItems = items
fetchKeybindingItems(items, searchValue) ==
    fetchLoop(items, 1, searchValue, split(searchValue, " "), keybindingWordsOf(searchValue))

\* fetch without the trim of its argument
fetchUntrimmed(items, searchValue) ==
    IF items = NULL THEN [status |-> "TypeError", entries |-> <<>>]
    ELSE IF searchValue # <<>>
         THEN [status |-> "ok", entries |-> fetchKeybindingItems(Val(items), searchValue)]
    ELSE [status |-> "ok",
          entries |-> [k \in 1..Len(Val(items)) |-> ListEntry(Val(items)[k], NoMatches)]]

\* KeybindingsEditorModel.fetch: reading an undefined _keybindingItems throws
fetch(items, searchValue) ==
    IF items = NULL THEN [status |-> "TypeError", entries |-> <<>>]
    ELSE IF trim(searchValue) # <<>>
         THEN [status |-> "ok", entries |-> fetchKeybindingItems(Val(items), trim(searchValue))]
    ELSE [status |-> "ok",
          entries |-> [k \in 1..Len(Val(items)) |-> ListEntry(Val(items)[k], NoMatches)]]


------------------------------------------------------------------------------
(* The model as a state machine: calls of resolve() and fetch(), the        *)
(* readiness signal, and the keybinding service changing underneath.        *)

MaxKeybindings == 2

MaxPending == 1

\* the search values fetch() is called with
SearchValues == {<<>>, <<" ">>, <<"c","o","p","y">>, <<"c","t","r","l","+","x">>, <<" ","u","s","e","r">>}

Init ==
    /\ keybindings = <<>>
    /\ ready = FALSE
    /\ pending = 0
    /\ keybindingItems = NULL
    /\ fetched = NULL
    /\ arg = NULL
    /\ ret = NULL

\* the keybinding service gains a binding it does not hold yet
Bind(binding) ==
    /\ Len(keybindings) < MaxKeybindings
    /\ \A k \in 1..Len(keybindings) : keybindings[k] # binding
    /\ keybindings' = Append(keybindings, binding)
    /\ UNCHANGED <<ready, pending, keybindingItems, fetched, arg, ret>>

\* resolve() is called: its callback waits for extensionService.onReady()
Resolve ==
    /\ pending < MaxPending
    /\ pending' = pending + 1
    /\ UNCHANGED <<keybindings, ready, keybindingItems, fetched, arg, ret>>

\* the readiness signal completes, once
OnReady ==
    /\ ~ready
    /\ ready' = TRUE
    /\ UNCHANGED <<keybindings, pending, keybindingItems, fetched, arg, ret>>

\* the .then callback of one resolve() runs, as a whole
Rebuild ==
    /\ ready
    /\ pending > 0
    /\ pending' = pending - 1
    /\ \E items \in resolved(keybindings) : keybindingItems' = Some(items)
    /\ UNCHANGED <<keybindings, ready, fetched, arg, ret>>

\* fetch(searchValue) is called and returns or throws
Fetch(searchValue) ==
    /\ fetched' = Some([searchValue |-> searchValue,
                        snapshot    |-> keybindingItems,
                        result      |-> fetch(keybindingItems, searchValue)])
    /\ UNCHANGED <<keybindings, ready, pending, keybindingItems, arg, ret>>

Next ==
    \/ \E binding \in Bindings : Bind(binding)
    \/ Resolve
    \/ OnReady
    \/ Rebuild
    \/ \E searchValue \in SearchValues : Fetch(searchValue)

Spec == Init /\ [][Next]_vars


------------------------------------------------------------------------------
(* The pure functions on their own: the input is drawn in the initial       *)
(* state and one action applies the function to it.                         *)

\* the model object as constructed, nothing called yet
Constructed ==
    /\ keybindings = <<>>
    /\ ready = FALSE
    /\ pending = 0
    /\ keybindingItems = NULL
    /\ fetched = NULL
    /\ ret = NULL

\* the entries resolve() can build: of every binding with a command, and of
\* every command as unbound, with and without a default keybinding
Entries ==
    {toKeybindingEntry(Val(binding.command), binding) :
        binding \in {b \in Bindings : b.command # NULL}}
    \cup {toKeybindingEntry(AllCommands[k], ResolvedKeybindingItem(NULL, Some(AllCommands[k]), NULL, isDefault)) :
            k \in 1..Len(AllCommands), isDefault \in BOOLEAN}

InitCompare == Constructed /\ arg \in Entries \X Entries \X Entries

\* compareKeybindingData is applied to the pairs of (a, b, c)
Compare ==
    /\ ret = NULL
    /\ ret' = Some([aa |-> compareKeybindingData(arg[1], arg[1]),
                    ab |-> compareKeybindingData(arg[1], arg[2]),
                    ba |-> compareKeybindingData(arg[2], arg[1]),
                    bc |-> compareKeybindingData(arg[2], arg[3]),
                    ac |-> compareKeybindingData(arg[1], arg[3])])
    /\ UNCHANGED <<keybindings, ready, pending, keybindingItems, fetched, arg>>

SpecCompare == InitCompare /\ [][Compare]_vars

MaxSpans == 3

MaxPos == 2

\* the spans [start, end) with end <= MaxPos
Spans == {sp \in [start : 0..MaxPos, end : 0..MaxPos] : sp.start <= sp.end}

SpanLists == UNION {[1..n -> Spans] : n \in 0..MaxSpans}

InitSpans == Constructed /\ arg \in SpanLists

\* filterAndSort is applied to the span list
FilterAndSort ==
    /\ ret = NULL
    /\ ret' = Some(filterAndSort(arg))
    /\ UNCHANGED <<keybindings, ready, pending, keybindingItems, fetched, arg>>

SpecSpans == InitSpans /\ [][FilterAndSort]_vars

\* the search values the matcher is applied to
MatcherSearchValues ==
    {<<"c","t","r","l","+","x">>, <<"C","t","r","l","+","X">>, <<"c","o","n","t","r","o","l","+","x">>, <<"c","t","r","l","+","z">>, <<"c","t","r","l">>, <<"c","t">>, <<"c","t","r","l","q">>, <<"x">>,
     <<"s","h","i","f","t","+","a","l","t","+","x">>, <<"a","l","t"," ","x">>, <<"c","t","r","l","+","k"," ","c","t","r","l","+","c">>, <<"c","t","r","l","+","k">>, <<"k"," ","c">>, <<"g","o","t"," ","t","o">>,
     <<"g","o"," ","g">>, <<"t","o"," ","g","o">>, <<"c","o","p","y">>, <<"k","o","p">>, <<"u","s","e","r">>, <<"d","e","f","a","u","l","t">>, <<"e","d","i","t","o","r"," ","f","o","c","u","s">>,
     <<"z","u"," ","g","e","h","e">>, <<" ","z"," ">>}

InitMatcher ==
    /\ Constructed
    /\ arg \in [keybindingItem : Entries, searchValue : MatcherSearchValues]

\* one round of the loop of fetchKeybindingItems: the matches of one item
Match ==
    /\ ret = NULL
    /\ LET searchValue == trim(arg.searchValue)
       IN  ret' = Some(KeybindingItemMatches(arg.keybindingItem, searchValue,
                           split(searchValue, " "), keybindingWordsOf(searchValue)))
    /\ UNCHANGED <<keybindings, ready, pending, keybindingItems, fetched, arg>>

SpecMatcher == InitMatcher /\ [][Match]_vars

\* the parts matchPart is applied to: NULL for an absent chord
Parts ==
    {NULL} \cup {Some(Part(ctrl, shift, alt, meta, <<"X">>)) :
                    ctrl \in BOOLEAN, shift \in BOOLEAN, alt \in BOOLEAN, meta \in BOOLEAN}

\* the key words matchPart is applied to
KeyWords ==
    {<<>>, <<"c">>, <<"c","t">>, <<"c","t","r","l">>, <<"C","T","R","L">>, <<"c","o","n","t","r","o","l">>, <<"c","t","r","l","q">>, <<"s","h","i","f","t">>, <<"s","h">>, <<"a","l","t">>,
     <<"w","i","n">>, <<"w","i","n","d","o","w","s">>, <<"w">>, <<"x">>}

InitPart == Constructed /\ arg \in [part : Parts, word : KeyWords]

\* matchPart is applied to the part, an empty match and the word
MatchPart ==
    /\ ret = NULL
    /\ ret' = Some(matchPart(arg.part, NoMatch, arg.word))
    /\ UNCHANGED <<keybindings, ready, pending, keybindingItems, fetched, arg>>

SpecPart == InitPart /\ [][MatchPart]_vars


------------------------------------------------------------------------------
(* The claims *)

\* the six match fields of a fetch() entry or of a KeybindingItemMatches
MatchFields(r) ==
    <<r.commandIdMatches, r.commandLabelMatches, r.commandDefaultLabelMatches,
      r.sourceMatches, r.whenMatches, r.keybindingMatches>>

SomeFieldMatches(r) == \E f \in 1..6 : MatchFields(r)[f] # NULL

Blank(searchValue) == \A i \in 1..Len(searchValue) : searchValue[i] \in {" ", "\t"}

\* the matches the matcher gives one item for a search value
ItemMatches(keybindingItem, searchValue) ==
    KeybindingItemMatches(keybindingItem, trim(searchValue),
        split(trim(searchValue), " "), keybindingWordsOf(trim(searchValue)))

\* C1: a fetch with a query that is not blank returns exactly the entries of
\* the snapshot with at least one non-null field match, in snapshot order,
\* each carrying the six matches of its item.
C1_FetchFilters ==
    \A call \in {c \in {fetched[k] : k \in 1..Len(fetched)} : c.snapshot # NULL /\ ~Blank(c.searchValue)} :
        LET kept == SelectSeq(Val(call.snapshot),
                        LAMBDA item : SomeFieldMatches(ItemMatches(item, call.searchValue)))
            entries == call.result.entries
        IN  /\ call.result.status = "ok"
            /\ Len(entries) = Len(kept)
            /\ \A k \in 1..Len(entries) :
                /\ entries[k].keybindingItem = kept[k]
                /\ MatchFields(entries[k]) = MatchFields(ItemMatches(kept[k], call.searchValue))
                /\ SomeFieldMatches(entries[k])

\* C1 witness: a fetch with a non-blank query kept one entry of the snapshot
\* and left another out
C1_Witness ==
    \E call \in {c \in {fetched[k] : k \in 1..Len(fetched)} : c.snapshot # NULL /\ ~Blank(c.searchValue)} :
        /\ Len(call.result.entries) > 0
        /\ Len(call.result.entries) < Len(Val(call.snapshot))

\* C2: a fetch with an empty or blank query returns one entry per item of
\* the snapshot, in snapshot order, and every match field is null.
C2_BlankFetchReturnsAll ==
    \A call \in {c \in {fetched[k] : k \in 1..Len(fetched)} : c.snapshot # NULL /\ Blank(c.searchValue)} :
        LET entries == call.result.entries
        IN  /\ call.result.status = "ok"
            /\ Len(entries) = Len(Val(call.snapshot))
            /\ \A k \in 1..Len(entries) :
                /\ entries[k].keybindingItem = Val(call.snapshot)[k]
                /\ ~SomeFieldMatches(entries[k])

\* C2 witness: a fetch with a query of white space only returned a snapshot
\* that holds bound and unbound entries
C2_Witness ==
    \E call \in {c \in {fetched[k] : k \in 1..Len(fetched)} : c.snapshot # NULL} :
        /\ call.searchValue = <<" ">>
        /\ Len(call.result.entries) > Len(AllCommands)

\* C3: compareKeybindingData is a total order: compare(a, a) = 0,
\* compare(a, b) < 0 exactly when compare(b, a) > 0, it is transitive, and
\* of two entries of one command that rules 1-3 do not order, the
\* non-default one sorts first.
C3_CompareIsTotalOrder ==
    ret # NULL =>
        LET r == Val(ret)
            a == arg[1]
            b == arg[2]
            rules123Tie ==
                /\ (a.keybinding = NULL) = (b.keybinding = NULL)
                /\ a.commandLabel = b.commandLabel
        IN  /\ r.aa = 0
            /\ (r.ab < 0) = (r.ba > 0)
            /\ (r.ab <= 0 /\ r.bc <= 0) => r.ac <= 0
            /\ (/\ a.command = b.command
                /\ rules123Tie
                /\ ~a.keybindingItem.isDefault
                /\ b.keybindingItem.isDefault) => (r.ab < 0 /\ r.ba > 0)

\* C4: when the query is neither full label of the key combination, the
\* key-combination match is non-null exactly when every key word sets a flag
\* on the first part or on the chord part.
C4_AllKeyWordsMustMatch ==
    (ret # NULL /\ arg.keybindingItem.keybinding # NULL) =>
        LET keybinding == Val(arg.keybindingItem.keybinding)
            searchValue == trim(arg.searchValue)
            keyWords == keybindingWordsOf(searchValue)
            fullLabel ==
                \/ toLowerCase(searchValue) = toLowerCase(getAriaLabel(keybinding))
                \/ toLowerCase(searchValue) = toLowerCase(getLabel(keybinding))
            SetsFlag(word) ==
                \/ hasAnyMatch(matchPart(Some(keybinding.first), NoMatch, word).match)
                \/ hasAnyMatch(matchPart(keybinding.chord, NoMatch, word).match)
        IN  ~fullLabel =>
                ((Val(ret).keybindingMatches # NULL) = (\A k \in 1..Len(keyWords) : SetsFlag(keyWords[k])))

\* C4 witness: a query of two key words, one matching and one not, gave no
\* key-combination match
C4_Witness ==
    /\ ret # NULL
    /\ arg.keybindingItem.keybinding = Some(CtrlX)
    /\ keybindingWordsOf(trim(arg.searchValue)) = <<<<"c","t","r","l">>, <<"z">>>>
    /\ Val(ret).keybindingMatches = NULL

\* C5: when the trimmed query equals, ignoring case, the aria label or the
\* display label of the key combination, the key-combination match has all
\* five flags set on the first part and on the chord part.
C5_FullLabelMatchesAll ==
    (ret # NULL /\ arg.keybindingItem.keybinding # NULL) =>
        LET keybinding == Val(arg.keybindingItem.keybinding)
            searchValue == trim(arg.searchValue)
        IN  (\/ toLowerCase(searchValue) = toLowerCase(getAriaLabel(keybinding))
             \/ toLowerCase(searchValue) = toLowerCase(getLabel(keybinding)))
            => /\ Val(ret).keybindingMatches # NULL
               /\ \A part \in {Val(Val(ret).keybindingMatches).firstPart,
                               Val(Val(ret).keybindingMatches).chordPart} :
                    part.metaKey /\ part.ctrlKey /\ part.shiftKey /\ part.altKey /\ part.keyCode

\* C5 witness: the aria label of a key combination without chord and without
\* shift, alt or meta was the query, and the chord part has all flags
C5_Witness ==
    /\ ret # NULL
    /\ arg.keybindingItem.keybinding = Some(CtrlX)
    /\ toLowerCase(trim(arg.searchValue)) = toLowerCase(getAriaLabel(CtrlX))
    /\ Val(ret).keybindingMatches # NULL
    /\ Val(Val(ret).keybindingMatches).chordPart.shiftKey

\* the word is a prefix of the label, ignoring case
IsPrefixIgnoreCase(word, label) ==
    /\ Len(word) <= Len(label)
    /\ toLowerCase(word) = toLowerCase(SubSeq(label, 1, Len(word)))

\* C6: a key word sets the flag of a modifier on a part exactly when the
\* part is present, carries the modifier, and the word is a prefix, ignoring
\* case, of one of the three labels of the modifier.
C6_ModifierWordIsPrefixOfLabel ==
    ret # NULL =>
        \A modifier \in {"metaKey", "ctrlKey", "shiftKey", "altKey"} :
            Val(ret).match[modifier] =
                (/\ arg.part # NULL
                 /\ Val(arg.part)[modifier]
                 /\ \E style \in {"ui", "aria", "user"} :
                        IsPrefixIgnoreCase(arg.word, modifierLabels[style][modifier]))

\* a span covered by another, different span
Covered(s, m) == m # s /\ m.start <= s.start /\ m.end >= s.end

\* C7: filterAndSort returns input spans only, none twice, none covered by a
\* different input span, every uncovered input span, sorted by start.
C7_FilterAndSort ==
    ret # NULL =>
        LET input == arg
            output == Val(ret)
        IN  /\ \A i, j \in 1..Len(output) : i # j => output[i] # output[j]
            /\ \A i \in 1..Len(output) :
                /\ \E k \in 1..Len(input) : input[k] = output[i]
                /\ ~\E k \in 1..Len(input) : Covered(output[i], input[k])
            /\ \A k \in 1..Len(input) :
                (~\E m \in 1..Len(input) : Covered(input[k], input[m]))
                    => \E i \in 1..Len(output) : output[i] = input[k]
            /\ \A i, j \in 1..Len(output) : i < j => output[i].start <= output[j].start

\* C7 witness: an input with a duplicate and a covered span, out of start
\* order, gave two spans
C7_Witness ==
    /\ ret # NULL
    /\ Len(arg) = 3
    /\ arg[1] = arg[3]
    /\ arg[1].start > arg[2].start
    /\ Len(Val(ret)) = 2

\* the lists a rebuild reading these bindings may store: every entry of
\* every binding with a command and of every unbound command, no other, and
\* no entry after one the comparator puts it strictly before
CompleteSorted(list, bindings) ==
    LET pushed == boundEntries(bindings) \o unboundEntries(bindings)
        Times(entry, array) == Cardinality({k \in 1..Len(array) : array[k] = entry})
    IN  /\ Len(list) = Len(pushed)
        /\ \A k \in 1..Len(pushed) : Times(pushed[k], list) = Times(pushed[k], pushed)
        /\ \A i, j \in 1..Len(list) : i < j => ~strictlyBefore(list[j], list[i])

RebuiltSnapshot(list) ==
    \E n \in 0..Len(keybindings) : CompleteSorted(list, SubSeq(keybindings, 1, n))

\* C8: the entry list a fetch reads, and the one stored, is always the whole
\* sorted list of one completed rebuild, and a returned result keeps the
\* entries of the snapshot it was computed from.
C8_FetchReadsWholeSnapshot ==
    /\ keybindingItems # NULL => RebuiltSnapshot(Val(keybindingItems))
    /\ \A call \in {c \in {fetched[k] : k \in 1..Len(fetched)} : c.snapshot # NULL} :
        /\ RebuiltSnapshot(Val(call.snapshot))
        /\ call.result.status = "ok"
        /\ \A k \in 1..Len(call.result.entries) :
            \E i \in 1..Len(Val(call.snapshot)) :
                call.result.entries[k].keybindingItem = Val(call.snapshot)[i]

\* C8 witness: a fetch returned a snapshot, a later rebuild replaced it and
\* another rebuild is waiting
C8_Witness ==
    /\ keybindingItems # NULL
    /\ pending > 0
    /\ \E call \in {c \in {fetched[k] : k \in 1..Len(fetched)} : c.snapshot # NULL} :
        /\ call.snapshot # keybindingItems
        /\ Len(call.result.entries) = Len(Val(call.snapshot))
        /\ \E i, j \in 1..Len(Val(call.snapshot)) :
            strictlyBefore(Val(call.snapshot)[i], Val(call.snapshot)[j])

\* C9: every fetch returns a list of results and raises no error, also
\* before the first rebuild has completed.
C9_FetchIsTotal ==
    \A call \in {fetched[k] : k \in 1..Len(fetched)} : call.result.status = "ok"

\* the non-null matches of the five text fields
FieldMatches(r) ==
    {Val(MatchFields(r)[f]) : f \in {f \in 1..5 : MatchFields(r)[f] # NULL}}

\* C10: every non-null field match is a sequence of pairwise non-overlapping
\* spans.
C10_SpansDoNotOverlap ==
    ret # NULL =>
        \A spans \in FieldMatches(Val(ret)) :
            \A i, j \in 1..Len(spans) :
                i # j => (spans[i].end <= spans[j].start \/ spans[j].end <= spans[i].start)

\* C10 as amended: in every non-null field match the starts and the ends of
\* the spans both increase strictly, so no span equals or covers another;
\* two spans may still overlap.
C10_SpansIncreaseStrictly ==
    ret # NULL =>
        \A spans \in FieldMatches(Val(ret)) :
            \A i, j \in 1..Len(spans) :
                i < j => (spans[i].start < spans[j].start /\ spans[i].end < spans[j].end)

\* C10 witness: a field match of two spans that overlap
C10_Witness ==
    /\ ret # NULL
    /\ \E spans \in FieldMatches(Val(ret)) :
        /\ Len(spans) = 2
        /\ spans[1].end > spans[2].start


====
